---- MODULE Spec2Model ----
(***************************************************************************)
(* localhostess daemon (src/src/index.ts): name-based routing of           *)
(* *.localhost requests to local services, the TTL-cached service mapping, *)
(* the HTTP proxy bridge and the WebSocket bridge.                         *)
(*                                                                         *)
(* Strings the code takes apart (Host values, header names, Upgrade        *)
(* values) are sequences of one-character strings, so that split, endsWith,*)
(* slice and toLowerCase are computed the way the code computes them.      *)
(* A value that may be null/undefined is a set with at most one element.   *)
(***************************************************************************)
EXTENDS Integers, Sequences, FiniteSets, TLC

\* ------------------------------------------------------------------ bounds
\* number of connections handled concurrently
MaxReqs == 2
\* Date.now() when the daemon starts (lastScan starts at 0, far in the past)
StartTime == 10000
\* how many times the clock advances in a behaviour
MaxTicks == 1
\* number of upgraded client connections
MaxConns == 2
\* messages each side of a bridged pair sends in a behaviour
MaxMsgs == 2
\* how many redirects the runtime's fetch() follows when asked to follow them
MaxFollow == 1
\* number of CONNECT tunnels handled concurrently
MaxTunnels == 2
\* key pairs generateKeyPair() produces in a behaviour
MaxKeys == 3

\* ------------------------------------------------------- program constants
CACHE_TTL_MS == 5000

\* --------------------------------------------------------- optional values
None == {}
Some(x) == {x}
The(o) == CHOOSE x \in o : TRUE

\* ----------------------------------------------------------------- strings
UpperChars == <<"A","B","C","D","E","F","G","H","I","J","K","L","M",
                "N","O","P","Q","R","S","T","U","V","W","X","Y","Z">>
LowerChars == <<"a","b","c","d","e","f","g","h","i","j","k","l","m",
                "n","o","p","q","r","s","t","u","v","w","x","y","z">>

LowerTable ==
    [c \in {UpperChars[i] : i \in 1..Len(UpperChars)} |->
        LowerChars[CHOOSE i \in 1..Len(UpperChars) : UpperChars[i] = c]]

LowerChar(c) == IF c \in DOMAIN LowerTable THEN LowerTable[c] ELSE c

\* String.prototype.toLowerCase
ToLowerCase(s) == [i \in 1..Len(s) |-> LowerChar(s[i])]

\* String.prototype.endsWith
EndsWith(s, suffix) ==
    /\ Len(s) >= Len(suffix)
    /\ SubSeq(s, Len(s) - Len(suffix) + 1, Len(s)) = suffix

\* s.split(sep)[0]: the part of s before the first occurrence of sep
SplitFirst(s, sep) ==
    IF \E i \in 1..Len(s) : s[i] = sep
    THEN SubSeq(s, 1, (CHOOSE i \in 1..Len(s) :
                          /\ s[i] = sep
                          /\ \A j \in 1..(i - 1) : s[j] # sep) - 1)
    ELSE s

\* s.slice(0, -n) for 0 < n
SliceDropLast(s, n) == SubSeq(s, 1, Len(s) - n)

S_localhost == <<"l","o","c","a","l","h","o","s","t">>
S_dotLocalhost == <<".">> \o S_localhost
S_underscore == <<"_">>
S_websocket == <<"w","e","b","s","o","c","k","e","t">>
S_host == <<"h","o","s","t">>
S_upgrade == <<"u","p","g","r","a","d","e">>
S_IfNoneMatch == <<"I","f","-","N","o","n","e","-","M","a","t","c","h">>
S_IfModifiedSince ==
    <<"I","f","-","M","o","d","i","f","i","e","d","-","S","i","n","c","e">>

\* service names
S_app == <<"a","p","p">>
S_api == <<"a","p","i">>

\* ----------------------------------------------------------------- headers
\* A Headers object: a function from lower-case header names to values.
\* The wire form of a request's header section is a set of <<name, value>>
\* fields whose names come in any letter case.
HeadersOf(fields) ==
    [n \in {ToLowerCase(f[1]) : f \in fields} |->
        (CHOOSE f \in fields : ToLowerCase(f[1]) = n)[2]]

\* Headers.prototype.get: value or null
HeadersGet(h, name) ==
    IF ToLowerCase(name) \in DOMAIN h THEN Some(h[ToLowerCase(name)]) ELSE None

\* variant: the name is compared as written
HeadersDelete_caseSensitive(h, name) ==
    [n \in (DOMAIN h) \ {name} |-> h[n]]

\* Headers.prototype.delete: names are matched case-insensitively
HeadersDelete(h, name) ==
    [n \in (DOMAIN h) \ {ToLowerCase(name)} |-> h[n]]

\* ----------------------------------------------------------------- mapping
\* Map<string, number>: a function from names to ports
EmptyMap == [n \in {} |-> 0]

\* Map.prototype.get: port or undefined
MapGet(m, k) == IF k \in DOMAIN m THEN Some(m[k]) ELSE None

\* JavaScript truthiness of `number | undefined`
Truthy(p) == p # None /\ The(p) # 0

\* ------------------------------------------------------------------ inputs
S_port9999 == <<":","9","9","9","9">>
S_ghost == <<"g","h","o","s","t">>
S_App == <<"A","p","p">>
S_Host == <<"H","o","s","t">>
S_Upgrade == <<"U","p","g","r","a","d","e">>
S_Accept == <<"A","c","c","e","p","t">>
S_IfMatch == <<"I","f","-","M","a","t","c","h">>
S_ifnonematchUpper == <<"I","F","-","N","O","N","E","-","M","A","T","C","H">>
S_ifmodifiedsinceLower ==
    <<"i","f","-","m","o","d","i","f","i","e","d","-","s","i","n","c","e">>
S_WebSocket == <<"W","e","b","S","o","c","k","e","t">>
S_WEBSOCKET == <<"W","E","B","S","O","C","K","E","T">>
S_h2c == <<"h","2","c">>
S_etag == <<"e","1">>
S_any == <<"*">>

\* values of the Host header (none, apex, empty prefix, "_", mapped names,
\* an unmapped name, a name in another letter case, a bare forward-proxy host)
HostValues ==
    { None,
      Some(S_localhost \o S_port9999),
      Some(S_dotLocalhost),
      Some(S_underscore \o S_dotLocalhost \o S_port9999),
      Some(S_app \o S_dotLocalhost \o S_port9999),
      Some(S_api \o S_dotLocalhost),
      Some(S_ghost \o S_dotLocalhost \o S_port9999),
      Some(S_App \o S_dotLocalhost),
      Some(S_app) }

\* values of the Upgrade header
UpgradeValues ==
    { None, Some(S_websocket), Some(S_WebSocket), Some(S_WEBSOCKET), Some(S_h2c) }

\* the other header fields of a request, as sent on the wire
OtherFieldSets ==
    { {},
      { <<S_IfNoneMatch, S_etag>>, <<S_Accept, S_any>> },
      { <<S_ifmodifiedsinceLower, S_etag>>, <<S_ifnonematchUpper, S_etag>>,
        <<S_IfMatch, S_etag>> } }

\* request line and body: form is "origin" (GET /path) or "absolute"
\* (GET http://host/path, the forward-proxy shape)
RequestLines ==
    { [method |-> "GET", form |-> "origin", path |-> "/foo", search |-> "?x=1",
       body |-> None],
      [method |-> "POST", form |-> "origin", path |-> "/", search |-> "",
       body |-> Some("payload")],
      [method |-> "GET", form |-> "absolute", path |-> "/", search |-> "",
       body |-> None] }

HeaderFields(host, upgrade, others) ==
    {<<S_Host, v>> : v \in host} \cup {<<S_Upgrade, v>> : v \in upgrade} \cup others

\* an inbound Request: request line plus the Headers object the runtime built
MkRequest(line, fields) ==
    [method |-> line.method, form |-> line.form, path |-> line.path,
     search |-> line.search, body |-> line.body, headers |-> HeadersOf(fields)]

Requests ==
    { MkRequest(l, HeaderFields(h, u, o)) :
        l \in RequestLines, h \in HostValues, u \in UpgradeValues,
        o \in OtherFieldSets }

\* the requests used where several connections run concurrently: the
\* dashboard and a plain request for a name
CoreRequests ==
    { MkRequest(l, HeaderFields(h, {}, {})) :
        l \in {x \in RequestLines : x.method = "GET" /\ x.form = "origin"},
        h \in { Some(S_localhost \o S_port9999),
                Some(S_app \o S_dotLocalhost \o S_port9999) } }

NoRequest == MkRequest([method |-> "", form |-> "", path |-> "", search |-> "",
                        body |-> None], {})

\* results buildMapping() can return
Mappings ==
    { EmptyMap,
      [n \in {S_app} |-> 4000],
      [n \in {S_app, S_api} |-> IF n = S_app THEN 4001 ELSE 3000] }

CoreMappings == { m \in Mappings : DOMAIN m \subseteq {S_app} }

\* results scanServers() can return
ServerLists ==
    { <<>>, <<[name |-> S_app, port |-> 4000, pid |-> 77, command |-> "bun"]>> }

\* ---------------------------------------------------------------- responses
Body(tpl, port, err) == [tpl |-> tpl, port |-> port, err |-> err]

\* what a backend can answer
BackendResponses ==
    { [status |-> 200, headers |-> {<<"content-type", "application/json">>},
       body |-> Body("backend-json", None, None)],
      [status |-> 302, headers |-> {<<"location", "/next">>},
       body |-> Body("", None, None)],
      [status |-> 304, headers |-> {<<"etag", "e1">>},
       body |-> Body("", None, None)] }

\* transport failures of fetch()
TransportErrors == { "ConnectionRefused", "ECONNRESET", "TimeoutError" }

\* ------------------------------------------------------------------- state
VARIABLES
    now,           \* Date.now()
    mappingCache,  \* index.ts: let mappingCache
    lastScan,      \* index.ts: let lastScan
    pc,            \* per connection: where its fetch handler stands
    request,       \* per connection: the inbound Request
    callNow,       \* per connection: getMapping's local `now`
    mapping,       \* per connection: fetch's local `mapping` (once resolved)
    scans,         \* per connection: buildMapping() calls made for it
    sent,          \* per connection: requests fetch() sent to the backend
    answers,       \* per connection: what came back for them (history)
    upgradeCall,   \* per connection: server.upgrade() result, "none" if not called
    outcome,       \* per connection: how the handler ended
    response       \* per connection: the Response returned

routerVars == <<now, mappingCache, lastScan, pc, request, callNow, mapping,
                scans, sent, answers, upgradeCall, outcome, response>>

\* the WebSocket bridge (index.ts websocket handlers)
VARIABLES
    wsClient,      \* per connection: the client socket (clientWs)
    wsBackend,     \* per connection: the backend socket (backendWs): readyState,
                   \* the (code, reason) it was last closed with, and whether
                   \* it fired an error event
    wsBackends,    \* index.ts: const wsBackends, as the set of its keys
    backendOut,    \* per connection: message events the backend socket fired (history)
    blobPending,   \* per connection: Blob payloads whose arrayBuffer() is pending
    clientIn,      \* per connection: frames clientWs.send() delivered
    clientOut,     \* per connection: messages the client sent, each with the
                   \* backend's readyState at that moment (history)
    backendIn      \* per connection: frames backendWs.send() delivered

wsVars == <<wsClient, wsBackend, wsBackends, backendOut, blobPending, clientIn,
            clientOut, backendIn>>

\* certificates (certs.ts) and the CONNECT tunnels that ask for them
VARIABLES
    caPc,          \* startup: "start" until loadCA() has been called, then "done"
    caCert,        \* certs.ts: let caCert
    caKey,         \* certs.ts: let caKey
    loadResult,    \* what loadCA() returned, once it has
    certCache,     \* certs.ts: const certCache
    nextKey,       \* key pairs generateKeyPair() has produced so far, plus one
    keygens,       \* per hostname: key generations run for it (history)
    returned,      \* per hostname: the results getCert ever returned (history)
    tpc,           \* per tunnel: where its handler stands
    thost,         \* per tunnel: the hostname of its CONNECT
    tcert,         \* per tunnel: what getCert returned to it
    tunseen,       \* per tunnel: the hostname was not cached when it connected
    thit           \* per tunnel: getCert answered it from the cache

certVars == <<caPc, caCert, caKey, loadResult, certCache, nextKey, keygens,
              returned, tpc, thost, tcert, tunseen, thit>>

vars == <<routerVars, wsVars, certVars>>

Reqs == 1..MaxReqs
Conns == 1..MaxConns
Tunnels == 1..MaxTunnels

\* hostnames CONNECT tunnels ask certificates for
CertHosts == { S_app \o S_dotLocalhost, S_api \o S_dotLocalhost }

\* the clock advances by the TTL or by one millisecond more
TickSteps == {CACHE_TTL_MS, CACHE_TTL_MS + 1}
MaxTime == StartTime + MaxTicks * (CACHE_TTL_MS + 1)

Init ==
    /\ now = StartTime
    /\ mappingCache = EmptyMap
    /\ lastScan = 0
    /\ pc = [r \in Reqs |-> "idle"]
    /\ request = [r \in Reqs |-> NoRequest]
    /\ callNow = [r \in Reqs |-> 0]
    /\ mapping = [r \in Reqs |-> None]
    /\ scans = [r \in Reqs |-> 0]
    /\ sent = [r \in Reqs |-> <<>>]
    /\ answers = [r \in Reqs |-> <<>>]
    /\ upgradeCall = [r \in Reqs |-> "none"]
    /\ outcome = [r \in Reqs |-> "none"]
    /\ response = [r \in Reqs |-> None]
    /\ wsClient = [c \in Conns |-> [state |-> "none", closed |-> None]]
    /\ wsBackend = [c \in Conns |-> [state |-> "none", closed |-> None, error |-> FALSE]]
    /\ wsBackends = {}
    /\ backendOut = [c \in Conns |-> <<>>]
    /\ blobPending = [c \in Conns |-> <<>>]
    /\ clientIn = [c \in Conns |-> <<>>]
    /\ clientOut = [c \in Conns |-> <<>>]
    /\ backendIn = [c \in Conns |-> <<>>]
    /\ caPc = "start"
    /\ caCert = None
    /\ caKey = None
    /\ loadResult = None
    /\ certCache = EmptyMap
    /\ nextKey = 1
    /\ keygens = [h \in CertHosts |-> 0]
    /\ returned = [h \in CertHosts |-> {}]
    /\ tpc = [t \in Tunnels |-> "idle"]
    /\ thost = [t \in Tunnels |-> <<>>]
    /\ tcert = [t \in Tunnels |-> None]
    /\ tunseen = [t \in Tunnels |-> FALSE]
    /\ thit = [t \in Tunnels |-> FALSE]

\* ------------------------------------------------------------ pure helpers
\* variant: the hostname is lower-cased before the name is cut out
extractSubdomain_caseless(host) ==
    IF host = None \/ The(host) = <<>> THEN None
    ELSE LET hostname == ToLowerCase(SplitFirst(The(host), ":")) IN
         IF hostname = S_localhost THEN None
         ELSE IF ~EndsWith(hostname, S_dotLocalhost) THEN None
         ELSE LET subdomain == SliceDropLast(hostname, Len(S_dotLocalhost)) IN
              IF subdomain = <<>> THEN None ELSE Some(subdomain)

\* index.ts extractSubdomain
extractSubdomain(host) ==
    IF host = None \/ The(host) = <<>> THEN None
    ELSE LET hostname == SplitFirst(The(host), ":") IN
         IF hostname = S_localhost THEN None
         ELSE IF ~EndsWith(hostname, S_dotLocalhost) THEN None
         ELSE LET subdomain == SliceDropLast(hostname, Len(S_dotLocalhost)) IN
              IF subdomain = <<>> THEN None ELSE Some(subdomain)

\* variant: the Upgrade value is compared without lower-casing it
isWebSocketUpgrade_caseSensitive(req) ==
    LET upgrade == HeadersGet(req.headers, S_upgrade) IN
    upgrade # None /\ The(upgrade) = S_websocket

\* index.ts isWebSocketUpgrade
isWebSocketUpgrade(req) ==
    LET upgrade == HeadersGet(req.headers, S_upgrade) IN
    upgrade # None /\ ToLowerCase(The(upgrade)) = S_websocket

\* fetch: const subdomain = extractSubdomain(req.headers.get("host"))
SubdomainOf(req) == extractSubdomain(HeadersGet(req.headers, S_host))

\* variant: the "_" subdomain is not treated as the dashboard
IsDashboard_noUnderscore(req) == SubdomainOf(req) = None

\* fetch: if (!subdomain || subdomain === "_")
IsDashboard(req) == SubdomainOf(req) = None \/ The(SubdomainOf(req)) = S_underscore

\* variant: the cache already counts as stale at exactly the TTL
IsStale_inclusive(t, scanned) == t - scanned >= CACHE_TTL_MS

\* getMapping: if (now - lastScan > CACHE_TTL_MS)
IsStale(t, scanned) == t - scanned > CACHE_TTL_MS

\* fetch: const targetPort = mapping.get(subdomain)
TargetPort(m, req) == MapGet(m, The(SubdomainOf(req)))

\* variant: the redirect option is left at fetch's default
RedirectMode_follow == "follow"

\* proxyRequest: the redirect option given to fetch
RedirectMode == "manual"

\* proxyRequest: headers of the outbound request
ProxyHeaders(req) ==
    HeadersDelete(HeadersDelete(req.headers, S_IfNoneMatch), S_IfModifiedSince)

\* proxyRequest: the Request handed to fetch()
ProxyReq(req, targetPort) ==
    [url |-> [protocol |-> "http:", hostname |-> S_localhost, port |-> targetPort,
              pathname |-> req.path, search |-> req.search],
     method |-> req.method,
     headers |-> ProxyHeaders(req),
     body |-> req.body,
     redirect |-> RedirectMode]

\* variant: the failure is reported as a plain server error
ProxyFailure_500(targetPort, e) ==
    [status |-> 500, headers |-> {},
     body |-> Body("Failed to proxy: ${e}", None, Some(e))]

\* proxyRequest: the catch branch
ProxyFailure(targetPort, e) ==
    [status |-> 502, headers |-> {},
     body |-> Body("Failed to proxy to port ${targetPort}: ${e}",
                   Some(targetPort), Some(e))]

\* fetch: the 404 answer
NotFound(req) ==
    [status |-> 404, headers |-> {},
     body |-> Body("No server found for \"${subdomain}.localhost\"\n", None, None)]

\* fetch: the answer to a failed server.upgrade()
UpgradeFailed ==
    [status |-> 400, headers |-> {}, body |-> Body("WebSocket upgrade failed", None, None)]

\* renderDashboard: the page for a list of servers
Dashboard(servers) ==
    [status |-> 200, headers |-> {<<"content-type", "text/html; charset=utf-8">>},
     body |-> Body(IF Len(servers) = 0 THEN "dashboard: No servers found"
                   ELSE "dashboard: Active Services", None, None)]

\* ----------------------------------------------------------------- actions
\* getMapping, up to its await (or its return when the cache is fresh)
getMapping(r) ==
    /\ IF IsStale(now, lastScan)
       THEN /\ pc' = [pc EXCEPT ![r] = "refresh"]
            /\ callNow' = [callNow EXCEPT ![r] = now]
            /\ scans' = [scans EXCEPT ![r] = @ + 1]
            /\ UNCHANGED mapping
       ELSE /\ pc' = [pc EXCEPT ![r] = "route"]
            /\ mapping' = [mapping EXCEPT ![r] = Some(mappingCache)]
            /\ UNCHANGED <<callNow, scans>>
    /\ UNCHANGED <<mappingCache, lastScan>>

\* renderDashboard, up to its await of scanServers()
renderDashboard(r) ==
    /\ pc' = [pc EXCEPT ![r] = "scan"]
    /\ UNCHANGED <<mappingCache, lastScan, callNow, mapping, scans>>

\* Bun.serve fetch(req, server): a request arrives on connection r
fetch(r, req) ==
    /\ pc[r] = "idle"
    /\ request' = [request EXCEPT ![r] = req]
    /\ IF IsDashboard(req) THEN renderDashboard(r) ELSE getMapping(r)
    /\ UNCHANGED <<now, sent, answers, upgradeCall, outcome, response>>
    /\ UNCHANGED <<wsVars, certVars>>

\* renderDashboard after scanServers() resolved
renderDashboardDone(r, servers) ==
    /\ pc[r] = "scan"
    /\ pc' = [pc EXCEPT ![r] = "done"]
    /\ outcome' = [outcome EXCEPT ![r] = "response"]
    /\ response' = [response EXCEPT ![r] = Some(Dashboard(servers))]
    /\ UNCHANGED <<now, mappingCache, lastScan, request, callNow, mapping, scans,
                   sent, answers, upgradeCall>>
    /\ UNCHANGED <<wsVars, certVars>>

\* getMapping after buildMapping() resolved with m
getMappingResume(r, m) ==
    /\ pc[r] = "refresh"
    /\ mappingCache' = m
    /\ lastScan' = callNow[r]
    /\ mapping' = [mapping EXCEPT ![r] = Some(m)]
    /\ pc' = [pc EXCEPT ![r] = "route"]
    /\ callNow' = [callNow EXCEPT ![r] = 0]
    /\ UNCHANGED <<now, request, scans, sent, answers, upgradeCall, outcome, response>>
    /\ UNCHANGED <<wsVars, certVars>>

\* buildMapping() rejected: getMapping and fetch have no catch
getMappingThrow(r) ==
    /\ pc[r] = "refresh"
    /\ pc' = [pc EXCEPT ![r] = "done"]
    /\ outcome' = [outcome EXCEPT ![r] = "exception"]
    /\ callNow' = [callNow EXCEPT ![r] = 0]
    /\ UNCHANGED <<now, mappingCache, lastScan, request, mapping, scans,
                   sent, answers, upgradeCall, response>>
    /\ UNCHANGED <<wsVars, certVars>>

\* fetch after `await getMapping()`: 404
fetchNotFound(r) ==
    /\ pc[r] = "route"
    /\ ~Truthy(TargetPort(The(mapping[r]), request[r]))
    /\ pc' = [pc EXCEPT ![r] = "done"]
    /\ outcome' = [outcome EXCEPT ![r] = "response"]
    /\ response' = [response EXCEPT ![r] = Some(NotFound(request[r]))]
    /\ UNCHANGED <<now, mappingCache, lastScan, request, callNow, mapping, scans,
                   sent, answers, upgradeCall>>
    /\ UNCHANGED <<wsVars, certVars>>

\* fetch after `await getMapping()`: server.upgrade(req, ...) returns ok
fetchUpgrade(r, ok) ==
    /\ pc[r] = "route"
    /\ Truthy(TargetPort(The(mapping[r]), request[r]))
    /\ isWebSocketUpgrade(request[r])
    /\ upgradeCall' = [upgradeCall EXCEPT ![r] = IF ok THEN "ok" ELSE "failed"]
    /\ pc' = [pc EXCEPT ![r] = "done"]
    /\ outcome' = [outcome EXCEPT ![r] = IF ok THEN "upgraded" ELSE "response"]
    /\ response' = [response EXCEPT ![r] = IF ok THEN None ELSE Some(UpgradeFailed)]
    /\ UNCHANGED <<now, mappingCache, lastScan, request, callNow, mapping, scans, sent, answers>>
    /\ UNCHANGED <<wsVars, certVars>>

\* fetch after `await getMapping()`: proxyRequest, up to `await fetch(proxyReq)`
proxyRequest(r) ==
    /\ pc[r] = "route"
    /\ Truthy(TargetPort(The(mapping[r]), request[r]))
    /\ ~isWebSocketUpgrade(request[r])
    /\ sent' = [sent EXCEPT ![r] =
                  <<ProxyReq(request[r], The(TargetPort(The(mapping[r]), request[r])))>>]
    /\ pc' = [pc EXCEPT ![r] = "proxy"]
    /\ UNCHANGED <<now, mappingCache, lastScan, request, callNow, mapping, scans,
                   answers, upgradeCall, outcome, response>>
    /\ UNCHANGED <<wsVars, certVars>>

\* the runtime's fetch(): with redirect "follow" a 3xx answer is followed
FetchFollows(req, resp) ==
    /\ req.redirect = "follow"
    /\ resp.status \in 300..399
    /\ \E h \in resp.headers : h[1] = "location"

FollowUp(req, resp) ==
    [req EXCEPT !.url.pathname = (CHOOSE h \in resp.headers : h[1] = "location")[2],
                !.url.search = ""]

\* proxyRequest after fetch(proxyReq) resolved with resp
proxyRequestDone(r, resp) ==
    /\ pc[r] = "proxy"
    /\ answers' = [answers EXCEPT ![r] = Append(@, [ok |-> TRUE, value |-> resp])]
    /\ LET last == sent[r][Len(sent[r])] IN
       IF FetchFollows(last, resp) /\ Len(sent[r]) <= MaxFollow
       THEN /\ sent' = [sent EXCEPT ![r] = Append(@, FollowUp(last, resp))]
            /\ UNCHANGED <<pc, outcome, response>>
       ELSE /\ pc' = [pc EXCEPT ![r] = "done"]
            /\ outcome' = [outcome EXCEPT ![r] = "response"]
            /\ response' = [response EXCEPT ![r] = Some(resp)]
            /\ UNCHANGED sent
    /\ UNCHANGED <<now, mappingCache, lastScan, request, callNow, mapping, scans,
                   upgradeCall>>
    /\ UNCHANGED <<wsVars, certVars>>

\* proxyRequest after fetch(proxyReq) rejected with e: the catch branch
proxyRequestCatch(r, e) ==
    /\ pc[r] = "proxy"
    /\ answers' = [answers EXCEPT ![r] = Append(@, [ok |-> FALSE, value |-> e])]
    /\ pc' = [pc EXCEPT ![r] = "done"]
    /\ outcome' = [outcome EXCEPT ![r] = "response"]
    /\ response' = [response EXCEPT ![r] =
                      Some(ProxyFailure(The(TargetPort(The(mapping[r]), request[r])), e))]
    /\ UNCHANGED <<now, mappingCache, lastScan, request, callNow, mapping, scans,
                   sent, upgradeCall>>
    /\ UNCHANGED <<wsVars, certVars>>

\* the connection's exchange is over; the slot serves the next connection
connectionEnd(r) ==
    /\ pc[r] = "done"
    /\ pc' = [pc EXCEPT ![r] = "idle"]
    /\ request' = [request EXCEPT ![r] = NoRequest]
    /\ callNow' = [callNow EXCEPT ![r] = 0]
    /\ mapping' = [mapping EXCEPT ![r] = None]
    /\ scans' = [scans EXCEPT ![r] = 0]
    /\ sent' = [sent EXCEPT ![r] = <<>>]
    /\ answers' = [answers EXCEPT ![r] = <<>>]
    /\ upgradeCall' = [upgradeCall EXCEPT ![r] = "none"]
    /\ outcome' = [outcome EXCEPT ![r] = "none"]
    /\ response' = [response EXCEPT ![r] = None]
    /\ UNCHANGED <<now, mappingCache, lastScan>>
    /\ UNCHANGED <<wsVars, certVars>>

\* time passes
Tick(d) ==
    /\ now + d <= MaxTime
    /\ now' = now + d
    /\ UNCHANGED <<mappingCache, lastScan, pc, request, callNow, mapping, scans,
                   sent, answers, upgradeCall, outcome, response>>
    /\ UNCHANGED <<wsVars, certVars>>

\* the steps of connection r other than the arrival of its request and the
\* WebSocket upgrade
Handle(r, maps, lists, resps, errs) ==
    \/ \E servers \in lists : renderDashboardDone(r, servers)
    \/ \E m \in maps : getMappingResume(r, m)
    \/ getMappingThrow(r)
    \/ fetchNotFound(r)
    \/ proxyRequest(r)
    \/ \E resp \in resps : proxyRequestDone(r, resp)
    \/ \E e \in errs : proxyRequestCatch(r, e)
    \/ connectionEnd(r)

\* concurrent connections, none of them asking for an upgrade
Next ==
    \/ \E r \in Reqs, req \in CoreRequests : fetch(r, req)
    \/ \E r \in Reqs :
         Handle(r, CoreMappings, {<<>>}, {x \in BackendResponses : x.status = 200},
                {"ConnectionRefused"})
    \/ \E d \in TickSteps : Tick(d)

Spec == Init /\ [][Next]_vars

\* one connection at a time, every request shape
NextRoute ==
    \/ \E req \in Requests : fetch(1, req)
    \/ Handle(1, Mappings, ServerLists, BackendResponses, TransportErrors)
    \/ \E ok \in BOOLEAN : fetchUpgrade(1, ok)
    \/ \E d \in TickSteps : Tick(d)

SpecRoute == Init /\ [][NextRoute]_vars

\* -------------------------------------------------------- WebSocket bridge
\* payloads are sequences of bytes; a message event carries its data as a
\* string, an ArrayBuffer or a Blob
BackendMessages ==
    { [repr |-> "string", data |-> <<104, 105>>],
      [repr |-> "ArrayBuffer", data |-> <<1, 2>>],
      [repr |-> "Blob", data |-> <<3>>] }

\* what a client can send: a text or a binary frame
ClientMessages ==
    { [type |-> "text", data |-> <<111, 107>>],
      [type |-> "binary", data |-> <<7>>] }

\* (code, reason) pairs of close events
CloseArgs == { <<1000, "done">>, <<1001, "going away">> }

\* the frame clientWs.send(x) puts on the wire: text for a string, binary
\* for a Uint8Array
TextFrame(str) == [type |-> "text", data |-> str]
BinaryFrame(bytes) == [type |-> "binary", data |-> bytes]

\* clientWs.send(frame): delivered while the client socket is open, dropped
\* otherwise
ClientSend(c, frame) ==
    clientIn' = [clientIn EXCEPT ![c] =
                   IF wsClient[c].state = "open" THEN Append(@, frame) ELSE @]

\* variant: the backend socket is left as it is
BackendWsClose_ignored(b, code, reason) == b

\* variant: the backend socket is always closed as a normal closure
BackendWsClose_normal(b, code, reason) ==
    IF b.state \in {"connecting", "open"}
    THEN [b EXCEPT !.state = "closing", !.closed = Some(<<1000, "">>)]
    ELSE b

\* backendWs.close(code, reason) on backend socket b: starts the closing
\* handshake unless the socket is already closing or closed
BackendWsClose(b, code, reason) ==
    IF b.state \in {"connecting", "open"}
    THEN [b EXCEPT !.state = "closing", !.closed = Some(<<code, reason>>)]
    ELSE b

\* variant: the handler closes the backend and keeps the entry
closeHandler_noDelete(c, code, reason, backend) ==
    /\ wsBackend' = [wsBackend EXCEPT ![c] =
                        IF c \in wsBackends THEN BackendWsClose(backend, code, reason)
                        ELSE backend]
    /\ UNCHANGED wsBackends

\* websocket.close(clientWs, code, reason): the handler the runtime calls
\* when the client socket closes; `backend` is the backend socket as it
\* stands when the handler runs
closeHandler(c, code, reason, backend) ==
    IF c \in wsBackends
    THEN /\ wsBackend' = [wsBackend EXCEPT ![c] = BackendWsClose(backend, code, reason)]
         /\ wsBackends' = wsBackends \ {c}
    ELSE /\ wsBackend' = [wsBackend EXCEPT ![c] = backend]
         /\ UNCHANGED wsBackends

\* clientWs.close(code, reason) called by a backend listener: a no-op on a
\* closed socket; otherwise the socket closes and the runtime calls the
\* close handler
ClientClose(c, code, reason, backend) ==
    IF wsClient[c].state = "open"
    THEN /\ wsClient' = [wsClient EXCEPT ![c] =
                           [state |-> "closed", closed |-> Some(<<code, reason>>)]]
         /\ closeHandler(c, code, reason, backend)
    ELSE /\ wsBackend' = [wsBackend EXCEPT ![c] = backend]
         /\ UNCHANGED <<wsClient, wsBackends>>

\* websocket.open(clientWs): the handler for a freshly upgraded connection
wsOpen(c) ==
    /\ wsClient[c].state = "none"
    /\ wsClient' = [wsClient EXCEPT ![c] = [state |-> "open", closed |-> None]]
    /\ wsBackend' = [wsBackend EXCEPT ![c] =
                        [state |-> "connecting", closed |-> None, error |-> FALSE]]
    /\ wsBackends' = wsBackends \cup {c}
    /\ UNCHANGED <<backendOut, blobPending, clientIn, clientOut, backendIn>>
    /\ UNCHANGED <<routerVars, certVars>>

\* backendWs "open" listener
backendOpen(c) ==
    /\ wsBackend[c].state = "connecting"
    /\ wsBackend' = [wsBackend EXCEPT ![c].state = "open"]
    /\ UNCHANGED <<wsClient, wsBackends, backendOut, blobPending, clientIn,
                   clientOut, backendIn>>
    /\ UNCHANGED <<routerVars, certVars>>

\* backendWs "message" listener
backendMessage(c, m) ==
    /\ wsBackend[c].state \in {"open", "closing"}
    /\ Len(backendOut[c]) < MaxMsgs
    /\ backendOut' = [backendOut EXCEPT ![c] = Append(@, m)]
    /\ IF m.repr = "string"
       THEN ClientSend(c, TextFrame(m.data)) /\ UNCHANGED blobPending
       ELSE IF m.repr = "ArrayBuffer"
       THEN ClientSend(c, BinaryFrame(m.data)) /\ UNCHANGED blobPending
       ELSE /\ blobPending' = [blobPending EXCEPT ![c] = Append(@, m.data)]
            /\ UNCHANGED clientIn
    /\ UNCHANGED <<wsClient, wsBackend, wsBackends, clientOut, backendIn>>
    /\ UNCHANGED <<routerVars, certVars>>

\* the then-callback of event.data.arrayBuffer()
blobResolved(c) ==
    /\ blobPending[c] # <<>>
    /\ ClientSend(c, BinaryFrame(Head(blobPending[c])))
    /\ blobPending' = [blobPending EXCEPT ![c] = Tail(@)]
    /\ UNCHANGED <<wsClient, wsBackend, wsBackends, backendOut, clientOut, backendIn>>
    /\ UNCHANGED <<routerVars, certVars>>

\* backendWs "close" listener
backendClose(c, code, reason) ==
    /\ wsBackend[c].state \in {"connecting", "open", "closing"}
    /\ ClientClose(c, code, reason,
                   [wsBackend[c] EXCEPT !.state = "closed",
                                        !.closed = Some(<<code, reason>>)])
    /\ UNCHANGED <<backendOut, blobPending, clientIn, clientOut, backendIn>>
    /\ UNCHANGED <<routerVars, certVars>>

\* variant: the listener only logs and leaves the rest to the close listener
backendError_logOnly(c) ==
    /\ wsBackend[c].state \in {"connecting", "open"}
    /\ wsBackend' = [wsBackend EXCEPT ![c].state = "closing", ![c].error = TRUE]
    /\ UNCHANGED <<wsClient, wsBackends, backendOut, blobPending, clientIn,
                   clientOut, backendIn>>
    /\ UNCHANGED <<routerVars, certVars>>

\* backendWs "error" listener; the socket's close event follows
backendError(c) ==
    /\ wsBackend[c].state \in {"connecting", "open"}
    /\ ClientClose(c, 1011, "Backend error",
                   [wsBackend[c] EXCEPT !.state = "closing", !.error = TRUE])
    /\ UNCHANGED <<backendOut, blobPending, clientIn, clientOut, backendIn>>
    /\ UNCHANGED <<routerVars, certVars>>

\* variant: the module keeps one backend socket for all clients
BackendOf_shared(c) == 1

\* wsBackends.get(clientWs): the backend socket that the open handler of
\* client c created and stored under it
BackendOf(c) == c

\* variant: a message is also passed to a socket that is still connecting
IsOpen_orConnecting(b) == b.state \in {"connecting", "open"}

\* websocket.message: backendWs.readyState === WebSocket.OPEN
IsOpen(b) == b.state = "open"

\* websocket.message(clientWs, message); clientOut records the message with
\* the backend's readyState as the handler found it
wsMessage(c, m) ==
    /\ wsClient[c].state = "open"
    /\ Len(clientOut[c]) < MaxMsgs
    /\ clientOut' = [clientOut EXCEPT ![c] =
                       Append(@, [message |-> m, readyState |-> wsBackend[c].state])]
    /\ backendIn' = [backendIn EXCEPT ![BackendOf(c)] =
                       IF c \in wsBackends /\ IsOpen(wsBackend[BackendOf(c)])
                       THEN Append(@, m) ELSE @]
    /\ UNCHANGED <<wsClient, wsBackend, wsBackends, backendOut, blobPending, clientIn>>
    /\ UNCHANGED <<routerVars, certVars>>

\* the client closes its socket: websocket.close(clientWs, code, reason)
wsClose(c, code, reason) ==
    /\ wsClient[c].state = "open"
    /\ wsClient' = [wsClient EXCEPT ![c] =
                      [state |-> "closed", closed |-> Some(<<code, reason>>)]]
    /\ closeHandler(c, code, reason, wsBackend[c])
    /\ UNCHANGED <<backendOut, blobPending, clientIn, clientOut, backendIn>>
    /\ UNCHANGED <<routerVars, certVars>>

\* one bridged pair
NextWs ==
    \/ wsOpen(1)
    \/ backendOpen(1)
    \/ \E m \in BackendMessages : backendMessage(1, m)
    \/ blobResolved(1)
    \/ \E a \in CloseArgs : backendClose(1, a[1], a[2])
    \/ backendError(1)
    \/ \E m \in ClientMessages : wsMessage(1, m)
    \/ \E a \in CloseArgs : wsClose(1, a[1], a[2])

SpecWs == Init /\ [][NextWs]_vars

\* what the client and the backend of pair c send: payloads that name the pair
PairClientMessage(c) == [type |-> "text", data |-> <<c>>]
PairBackendMessage(c) == [repr |-> "string", data |-> <<100 + c>>]

\* messages the pairs have sent so far, both directions together
PairTraffic ==
    Cardinality(UNION {{c} \X (1..Len(clientOut[c])) : c \in Conns})
        + Cardinality(UNION {{c} \X (1..Len(backendOut[c])) : c \in Conns})

\* several bridged pairs side by side
NextPairs ==
    \/ \E c \in Conns : wsOpen(c)
    \/ \E c \in Conns : backendOpen(c)
    \/ \E c \in Conns : PairTraffic < MaxMsgs /\ backendMessage(c, PairBackendMessage(c))
    \/ \E c \in Conns : PairTraffic < MaxMsgs /\ wsMessage(c, PairClientMessage(c))
    \/ \E c \in Conns : backendClose(c, 1000, "done")
    \/ \E c \in Conns : backendError(c)
    \/ \E c \in Conns : wsClose(c, 1001, "going away")

SpecPairs == Init /\ [][NextPairs]_vars

\* the close event of a backend socket on which close() was called or that
\* reported an error
PendingBackendClose ==
    /\ wsBackend[1].state = "closing"
    /\ \E a \in CloseArgs : backendClose(1, a[1], a[2])

\* the bridged pair with the runtime delivering pending close events
SpecWsFair == SpecWs /\ WF_vars(PendingBackendClose)

\* ------------------------------------------------------------ certificates
\* what a file under the CA root holds
FileStates == {"missing", "garbage", "pem"}

\* findCaRoot: MKCERT_CA_ROOT, else the directory `mkcert -CAROOT` prints if
\* it exists, else the platform default directory that holds rootCA.pem
findCaRoot(env) ==
    IF env.envRoot # None THEN env.envRoot
    ELSE IF env.toolRoot # None THEN env.toolRoot
    ELSE env.defaultRoot

\* the machine loadCA runs on: the three places findCaRoot looks at and the
\* two CA files of the directory it settles on (a default directory is only
\* chosen when its rootCA.pem exists)
CaEnvironments ==
    { env \in [ envRoot : {None, Some("/env")}, toolRoot : {None, Some("/tool")},
                defaultRoot : {None, Some("/home")},
                certFile : FileStates, keyFile : FileStates ] :
        (env.envRoot = None /\ env.toolRoot = None /\ env.defaultRoot # None)
            => env.certFile # "missing" }

\* forge.pki.certificateFromPem: the certificate, or nothing when it throws
certificateFromPem(file) ==
    IF file = "pem" THEN Some([subject |-> "mkcert development CA"]) ELSE None

\* forge.pki.privateKeyFromPem: the key, or nothing when it throws
privateKeyFromPem(file) ==
    IF file = "pem" THEN Some("rootCA-key") ELSE None

\* loadCA: the assignments to caCert and caKey and the value returned
loadCA(env) ==
    IF \/ findCaRoot(env) = None
       \/ env.certFile = "missing" \/ env.keyFile = "missing"
       \/ certificateFromPem(env.certFile) = None
    THEN /\ loadResult' = Some(FALSE)
         /\ UNCHANGED <<caCert, caKey>>
    ELSE /\ caCert' = certificateFromPem(env.certFile)
         /\ IF privateKeyFromPem(env.keyFile) = None
            THEN /\ loadResult' = Some(FALSE)
                 /\ UNCHANGED caKey
            ELSE /\ loadResult' = Some(TRUE)
                 /\ caKey' = privateKeyFromPem(env.keyFile)

\* variant: the certificate alone counts as a loaded CA
isMitmAvailable_certOnly == caCert # None

\* isMitmAvailable
isMitmAvailable == caCert # None /\ caKey # None

\* variant: getCert looks at the certificate only
CaMissing_certOnly == caCert = None

\* variant: getCert gives up only when both halves are missing
CaMissing_both == caCert = None /\ caKey = None

\* getCert: if (!caCert || !caKey)
CaMissing == caCert = None \/ caKey = None

\* variant: the cache is never consulted
CertCacheGet_miss(hostname) == None

\* getCert: certCache.get(hostname)
CertCacheGet(hostname) == MapGet(certCache, hostname)

\* variant: the cache keeps only the newest entry
CertCacheSet_single(cache, hostname, result) == [h \in {hostname} |-> result]

\* getCert: certCache.set(hostname, result)
CertCacheSet(cache, hostname, result) ==
    [h \in (DOMAIN cache) \cup {hostname} |->
        IF h = hostname THEN result ELSE cache[h]]

\* forge.pki.certificateToPem / privateKeyToPem
certificateToPem(cert) == <<"CERTIFICATE", cert>>
privateKeyToPem(key) == <<"RSA PRIVATE KEY", key>>

\* getCert: the certificate built and signed for hostname around key pair k
NewLeaf(hostname, k) ==
    [publicKey |-> k,
     serialNumber |-> now,
     validity |-> [notBefore |-> now, days |-> 365],
     subject |-> hostname,
     issuer |-> caCert,
     basicConstraints |-> [cA |-> FALSE],
     altNames |-> {hostname},
     signedWith |-> caKey,
     md |-> "sha256"]

\* getCert: the value returned (null as None)
getCertReturn(hostname) ==
    IF CaMissing THEN None
    ELSE IF CertCacheGet(hostname) # None THEN CertCacheGet(hostname)
    ELSE Some([cert |-> certificateToPem(NewLeaf(hostname, nextKey)),
               key |-> privateKeyToPem(nextKey)])

\* getCert: what the call does to the module's state; generateKeyPair hands
\* out key material never seen before
getCert(hostname) ==
    /\ IF CaMissing \/ CertCacheGet(hostname) # None
       THEN UNCHANGED <<certCache, nextKey, keygens>>
       ELSE /\ certCache' = CertCacheSet(certCache, hostname, The(getCertReturn(hostname)))
            /\ nextKey' = nextKey + 1
            /\ keygens' = [keygens EXCEPT ![hostname] = @ + 1]
    /\ returned' = [returned EXCEPT ![hostname] = @ \cup getCertReturn(hostname)]

\* startup: loadCA() is called once
startup(env) ==
    /\ caPc = "start"
    /\ caPc' = "done"
    /\ loadCA(env)
    /\ UNCHANGED <<certCache, nextKey, keygens, returned, tpc, thost, tcert,
                   tunseen, thit>>
    /\ UNCHANGED <<routerVars, wsVars>>

\* a CONNECT for hostname arrives on tunnel t
connectTunnel(t, hostname) ==
    /\ tpc[t] = "idle"
    /\ tpc' = [tpc EXCEPT ![t] = "tunnel"]
    /\ thost' = [thost EXCEPT ![t] = hostname]
    /\ tunseen' = [tunseen EXCEPT ![t] = hostname \notin DOMAIN certCache]
    /\ UNCHANGED <<caPc, caCert, caKey, loadResult, certCache, nextKey, keygens,
                   returned, tcert, thit>>
    /\ UNCHANGED <<routerVars, wsVars>>

\* the tunnel's handler asks getCert for its hostname: TLS is terminated with
\* the pair it gets, or the bytes are passed through when it gets null
mitm(t) ==
    /\ tpc[t] = "tunnel"
    /\ CaMissing \/ CertCacheGet(thost[t]) # None \/ nextKey <= MaxKeys
    /\ getCert(thost[t])
    /\ tcert' = [tcert EXCEPT ![t] = getCertReturn(thost[t])]
    /\ thit' = [thit EXCEPT ![t] = ~CaMissing /\ CertCacheGet(thost[t]) # None]
    /\ tpc' = [tpc EXCEPT ![t] =
                 IF getCertReturn(thost[t]) = None THEN "passthrough" ELSE "tls"]
    /\ UNCHANGED <<caPc, caCert, caKey, loadResult, thost, tunseen>>
    /\ UNCHANGED <<routerVars, wsVars>>

\* the tunnel is torn down; the slot serves the next CONNECT
tunnelEnd(t) ==
    /\ tpc[t] \in {"tls", "passthrough"}
    /\ tpc' = [tpc EXCEPT ![t] = "idle"]
    /\ thost' = [thost EXCEPT ![t] = <<>>]
    /\ tcert' = [tcert EXCEPT ![t] = None]
    /\ tunseen' = [tunseen EXCEPT ![t] = FALSE]
    /\ thit' = [thit EXCEPT ![t] = FALSE]
    /\ UNCHANGED <<caPc, caCert, caKey, loadResult, certCache, nextKey, keygens,
                   returned>>
    /\ UNCHANGED <<routerVars, wsVars>>

\* the CA is loaded once while tunnels come and go
NextCerts ==
    \/ \E env \in CaEnvironments : startup(env)
    \/ \E t \in Tunnels, hostname \in CertHosts : connectTunnel(t, hostname)
    \/ \E t \in Tunnels : mitm(t)
    \/ \E t \in Tunnels : tunnelEnd(t)
    \/ \E d \in TickSteps : Tick(d)

SpecCerts == Init /\ [][NextCerts]_vars

\* ------------------------------------------------- vocabulary of the claims
S_ifnonematchLower == <<"i","f","-","n","o","n","e","-","m","a","t","c","h">>
S_ifmatchLower == <<"i","f","-","m","a","t","c","h">>

\* names a request can address
ClaimNames == {S_app, S_api, S_ghost, S_App}

HostOf(req) == HeadersGet(req.headers, S_host)

\* the Host value is <name>.localhost or <name>.localhost:<port>
NamedHost(req, name) ==
    HostOf(req) \in { Some(name \o S_dotLocalhost),
                      Some(name \o S_dotLocalhost \o S_port9999) }

\* the Host hostname is localhost, .localhost or _.localhost
DashboardHost(req) ==
    \E h \in {S_localhost, S_dotLocalhost, S_underscore \o S_dotLocalhost} :
        HostOf(req) \in {Some(h), Some(h \o S_port9999)}

\* the Upgrade header is "websocket" in some letter case
WantsWebSocket(req) ==
    HeadersGet(req.headers, S_upgrade)
        \in {Some(S_websocket), Some(S_WebSocket), Some(S_WEBSOCKET)}

DashboardPages == {Some(Dashboard(l)) : l \in ServerLists}

\* connection r got a mapping from getMapping and `name` is in it
Mapped(r, name) ==
    /\ mapping[r] # None
    /\ name \in DOMAIN The(mapping[r])
    /\ NamedHost(request[r], name)

\* connection r got a mapping from getMapping and `name` is not in it
Unmapped(r, name) ==
    /\ mapping[r] # None
    /\ name \notin DOMAIN The(mapping[r])
    /\ NamedHost(request[r], name)

\* ------------------------------------------------------------------ claims
\* C1: refresh coalescing. While the cache is stale, concurrent getMapping
\* calls start exactly one buildMapping() refresh: at no time are two
\* refreshes in flight.
C1_SingleFlight == Cardinality({r \in Reqs : pc[r] = "refresh"}) <= 1

\* C2: staleness threshold. A getMapping call made when now - lastScan <= 5000
\* starts no refresh, returns the cached mapping and leaves mappingCache and
\* lastScan unchanged; a call made when now - lastScan > 5000 starts exactly
\* one refresh and, when that refresh resolves, returns the refreshed mapping
\* (whether or not other calls are in flight).
C2_StalenessThreshold ==
    [][\A r \in Reqs :
         /\ (pc[r] = "idle" /\ pc'[r] \in {"refresh", "route"}) =>
               IF now - lastScan <= CACHE_TTL_MS
               THEN /\ pc'[r] = "route"
                    /\ scans'[r] = 0
                    /\ mapping'[r] = Some(mappingCache)
                    /\ mappingCache' = mappingCache
                    /\ lastScan' = lastScan
               ELSE /\ pc'[r] = "refresh"
                    /\ scans'[r] = 1
         /\ (pc[r] = "refresh" /\ pc'[r] = "route") =>
               /\ scans'[r] = 1
               /\ mapping'[r] = Some(mappingCache')
               /\ lastScan' = callNow[r]]_vars

\* C2 witness: a call made exactly 5000 ms after the last scan returned the
\* cached (non-empty) mapping without a refresh
C2_Witness ==
    \E r \in Reqs :
        /\ pc[r] = "route"
        /\ scans[r] = 0
        /\ now - lastScan = CACHE_TTL_MS
        /\ mappingCache # EmptyMap
        /\ mapping[r] = Some(mappingCache)

\* C3: a request for <name>.localhost[:port] whose name is absent from the
\* mapping getMapping returned is answered with status 404, and neither a
\* backend request nor a WebSocket upgrade is attempted, with or without an
\* Upgrade: websocket header.
C3_Unmapped404 ==
    \A r \in Reqs : \A name \in ClaimNames :
        Unmapped(r, name) =>
            /\ sent[r] = <<>>
            /\ upgradeCall[r] = "none"
            /\ pc[r] \in {"route", "done"}
            /\ pc[r] = "done" =>
                  /\ outcome[r] = "response"
                  /\ The(response[r]).status = 404

\* C3 witness: an upgrade request for a name missing from a non-empty
\* mapping was answered 404
C3_Witness ==
    /\ pc[1] = "done"
    /\ Unmapped(1, S_App)
    /\ S_app \in DOMAIN The(mapping[1])
    /\ WantsWebSocket(request[1])
    /\ The(response[1]).status = 404

\* C4: a non-upgrade request for a mapped name is forwarded exactly once, to
\* the mapped port, and the client gets the backend's response unchanged; a
\* 3xx response is returned as is and no follow-up request is made.
C4_ForwardedOnceVerbatim ==
    \A r \in Reqs : \A name \in ClaimNames :
        (Mapped(r, name) /\ ~WantsWebSocket(request[r])) =>
            /\ Len(sent[r]) <= 1
            /\ \A i \in 1..Len(sent[r]) : sent[r][i].url.port = The(mapping[r])[name]
            /\ (pc[r] = "done" /\ answers[r] # <<>> /\ answers[r][1].ok) =>
                  /\ Len(sent[r]) = 1
                  /\ Len(answers[r]) = 1
                  /\ response[r] = Some(answers[r][1].value)

\* C4 witness: a backend 302 was returned to the client
C4_Witness ==
    /\ pc[1] = "done"
    /\ Mapped(1, S_api)
    /\ answers[1] # <<>>
    /\ answers[1][1].ok
    /\ answers[1][1].value.status = 302
    /\ The(response[1]).status = 302

\* C5: when the backend transport fails while proxyRequest forwards to
\* targetPort, the client gets status 502 with a body containing targetPort,
\* as a response value and not as an exception out of the handler.
C5_BackendFailure502 ==
    \A r \in Reqs : \A name \in ClaimNames :
        (/\ answers[r] # <<>>
         /\ ~answers[r][Len(answers[r])].ok
         /\ Mapped(r, name)) =>
            /\ pc[r] = "done"
            /\ outcome[r] = "response"
            /\ The(response[r]).status = 502
            /\ The(response[r]).body.port = Some(The(mapping[r])[name])
            /\ The(response[r]).body.port = Some(sent[r][1].url.port)

\* C5 witness: a connection reset on the way to port 3000 was answered 502
C5_Witness ==
    /\ pc[1] = "done"
    /\ Mapped(1, S_api)
    /\ answers[1] = <<[ok |-> FALSE, value |-> "ECONNRESET"]>>
    /\ The(response[1]).status = 502
    /\ The(response[1]).body.port = Some(3000)

\* C6: the outbound request of proxyRequest targets localhost:<targetPort>
\* with the inbound method, path and query, never carries If-None-Match or
\* If-Modified-Since, and carries every other inbound header.
C6_OutboundRequest ==
    \A r \in Reqs : \A name \in ClaimNames :
        (sent[r] # <<>> /\ Mapped(r, name)) =>
            LET out == sent[r][1]
                req == request[r]
                stripped == {S_ifnonematchLower, S_ifmodifiedsinceLower}
            IN  /\ out.url.hostname = S_localhost
                /\ out.url.port = The(mapping[r])[name]
                /\ out.method = req.method
                /\ out.url.pathname = req.path
                /\ out.url.search = req.search
                /\ out.body = req.body
                /\ stripped \cap DOMAIN out.headers = {}
                /\ \A n \in (DOMAIN req.headers) \ stripped :
                      n \in DOMAIN out.headers /\ out.headers[n] = req.headers[n]

\* C6 witness: a POST that carried both conditional headers and If-Match was
\* forwarded with If-Match and without the two
C6_Witness ==
    /\ sent[1] # <<>>
    /\ Mapped(1, S_app)
    /\ request[1].method = "POST"
    /\ {S_ifnonematchLower, S_ifmodifiedsinceLower} \subseteq DOMAIN request[1].headers
    /\ S_ifmatchLower \in DOMAIN sent[1][1].headers
    /\ S_host \in DOMAIN sent[1][1].headers

C8_ForwardProxyResolved ==
    \A r \in Reqs :
        (/\ request[r].form = "absolute"
         /\ HostOf(request[r]) = Some(S_app)
         /\ ~WantsWebSocket(request[r])
         /\ S_app \in DOMAIN mappingCache
         /\ ~IsStale(now, lastScan)
         /\ pc[r] = "done") =>
            /\ response[r] \notin DashboardPages
            /\ Len(sent[r]) = 1
            /\ sent[r][1].url.port = mappingCache[S_app]

\* C9: a request for a mapped name whose Upgrade header is "websocket" in any
\* letter case goes to server.upgrade and never to proxyRequest, and a failed
\* upgrade is answered 400; a request without that header is never upgraded.
C9_UpgradeDispatch ==
    \A r \in Reqs : \A name \in ClaimNames :
        Mapped(r, name) =>
            IF WantsWebSocket(request[r])
            THEN /\ sent[r] = <<>>
                 /\ pc[r] \in {"route", "done"}
                 /\ pc[r] = "done" =>
                       /\ upgradeCall[r] \in {"ok", "failed"}
                       /\ upgradeCall[r] = "ok" => outcome[r] = "upgraded"
                       /\ upgradeCall[r] = "failed" =>
                             /\ outcome[r] = "response"
                             /\ The(response[r]).status = 400
            ELSE upgradeCall[r] = "none"

\* C9 witness: Upgrade: WEBSOCKET for a mapped name, upgrade failed, 400
C9_Witness ==
    /\ pc[1] = "done"
    /\ Mapped(1, S_app)
    /\ HeadersGet(request[1].headers, S_upgrade) = Some(S_WEBSOCKET)
    /\ upgradeCall[1] = "failed"
    /\ The(response[1]).status = 400

\* the frame a backend message must reach the client as
ExpectedFrame(m) ==
    [type |-> IF m.repr = "string" THEN "text" ELSE "binary", data |-> m.data]

IsPrefix(a, b) == Len(a) <= Len(b) /\ \A i \in 1..Len(a) : a[i] = b[i]

\* C10: backend-to-client forwarding preserves content, type and order: what
\* the client has received is always an initial part of what the backend
\* emitted (text as text, binary as the same bytes), so a later message is
\* never delivered before an earlier one.
C10_BackendToClientOrder ==
    \A c \in Conns :
        IsPrefix(clientIn[c],
                 [i \in 1..Len(backendOut[c]) |-> ExpectedFrame(backendOut[c][i])])

\* C11: while the CA stays loaded, getCert returns the same {cert, key} pair
\* for a hostname on every call: the entry certCache[h] made by the first
\* call is never overwritten or removed, and keys are generated and a
\* certificate signed at most once per hostname.
C11_CertStable ==
    [][\A h \in CertHosts :
         /\ h \in DOMAIN certCache =>
               (h \in DOMAIN certCache' /\ certCache'[h] = certCache[h])
         /\ keygens'[h] <= 1
         /\ Cardinality(returned'[h]) <= 1
         /\ returned'[h] # {} =>
               (h \in DOMAIN certCache' /\ returned'[h] = {certCache'[h]})]_vars

\* C11 witness: a later call got from the cache the pair that an earlier
\* call, at an earlier time, had generated for the hostname
C11_Witness ==
    \E t \in Tunnels :
        /\ tpc[t] = "tls"
        /\ thit[t]
        /\ keygens[thost[t]] = 1
        /\ tcert[t] = Some(certCache[thost[t]])
        /\ The(tcert[t]).cert[2].serialNumber < now

\* C12: concurrent issuance converges. Handlers that ask getCert for the same
\* hostname, in any interleaving, all hold the same pair, which is the one
\* entry the cache has for it; handlers for different hostnames hold
\* different key material, and a getCert call for another hostname leaves
\* the entry, the key generations and the results of this one untouched.
C12_ConcurrentIssuance ==
    [][\A h \in CertHosts :
         /\ \A t \in Tunnels :
               (thost'[t] = h /\ tcert'[t] # None) =>
                  /\ h \in DOMAIN certCache'
                  /\ tcert'[t] = Some(certCache'[h])
                  /\ The(tcert'[t]).cert[2].subject = h
                  /\ \A u \in Tunnels :
                        (tcert'[u] # None /\ thost'[u] = h) => tcert'[u] = tcert'[t]
                  /\ \A u \in Tunnels :
                        (tcert'[u] # None /\ thost'[u] # h) =>
                            The(tcert'[u]).key # The(tcert'[t]).key
         /\ (\E t \in Tunnels : tpc[t] = "tunnel" /\ tpc'[t] # "tunnel" /\ thost[t] # h) =>
               /\ (h \in DOMAIN certCache) = (h \in DOMAIN certCache')
               /\ h \in DOMAIN certCache => certCache'[h] = certCache[h]
               /\ keygens'[h] = keygens[h]
               /\ returned'[h] = returned[h]]_vars

\* C12 witness: two tunnels connected for the same hostname while it was
\* not cached, the other hostname's pair was issued as well, and both hold
\* the same pair
C12_Witness ==
    \E t, u \in Tunnels :
        /\ t # u
        /\ thost[t] = thost[u]
        /\ tunseen[t] /\ tunseen[u]
        /\ tpc[t] = "tls" /\ tpc[u] = "tls"
        /\ ~thit[t] /\ thit[u]
        /\ tcert[t] = tcert[u]
        /\ DOMAIN certCache = CertHosts

\* C13: whenever the CA certificate or the CA key is not loaded, a getCert
\* call returns null for every hostname, generates no key pair and no
\* certificate, and leaves certCache unchanged.
C13_UnavailableIsNull ==
    [][\A t \in Tunnels :
         (/\ tpc[t] = "tunnel" /\ tpc'[t] # "tunnel"
          /\ caCert = None \/ caKey = None) =>
            /\ tcert'[t] = None
            /\ tpc'[t] = "passthrough"
            /\ certCache' = certCache
            /\ nextKey' = nextKey
            /\ keygens' = keygens
            /\ returned' = returned]_vars

\* C13 witness: the CA certificate was loaded and the CA key was not, and a
\* tunnel that asked for a certificate got null
C13_Witness ==
    \E t \in Tunnels :
        /\ caCert # None
        /\ caKey = None
        /\ tpc[t] = "passthrough"
        /\ thost[t] \in CertHosts
        /\ tcert[t] = None
        /\ certCache = EmptyMap

\* C14: if loadCA fails (no CA root, a CA file missing, certificate or key
\* unparseable, also when the certificate parsed and the key did not) it
\* returns false, and from then on isMitmAvailable() is false and getCert
\* returns null for every hostname: no pair is ever issued, cached or used.
C14_LoadFailureDisablesMitm ==
    /\ caPc = "done" => loadResult \in {Some(TRUE), Some(FALSE)}
    /\ loadResult = Some(FALSE) =>
          /\ ~isMitmAvailable
          /\ caCert = None \/ caKey = None
          /\ certCache = EmptyMap
          /\ nextKey = 1
          /\ \A h \in CertHosts : keygens[h] = 0 /\ returned[h] = {}
          /\ \A t \in Tunnels : tcert[t] = None /\ tpc[t] # "tls"

\* C14 witness: loadCA parsed the certificate, failed on the key and
\* returned false; later a tunnel asked for a certificate and was passed
\* through
C14_Witness ==
    \E t \in Tunnels :
        /\ loadResult = Some(FALSE)
        /\ caCert # None
        /\ now > StartTime
        /\ tpc[t] = "passthrough"
        /\ tunseen[t]

\* C15: registry failure tolerance. When the refresh started by getMapping
\* fails, getMapping still returns a mapping (the previous or the empty one)
\* and the request ends with a normal routing outcome (404, proxied or
\* upgraded): no handler that went through getMapping ends with an
\* uncaught error.
C15_RefreshFailureTolerated ==
    \A r \in Reqs :
        (pc[r] = "done" /\ ~IsDashboard(request[r])) =>
            /\ mapping[r] # None
            /\ outcome[r] \in {"response", "upgraded"}

ReceivedWhileOpen(e) == e.readyState = "open"

\* the messages of a client history, in order
MessagesOf(h) == [i \in 1..Len(h) |-> h[i].message]

\* C16: client-to-backend forwarding. What the backend has been sent is, in
\* order and unchanged, exactly the client messages that were received while
\* the backend socket was OPEN; a message received while it was CONNECTING,
\* CLOSING or CLOSED is dropped and never delivered later.
C16_ClientToBackend ==
    \A c \in Conns :
        backendIn[c] = MessagesOf(SelectSeq(clientOut[c], ReceivedWhileOpen))

\* C16 witness: a message received while the backend was connecting was
\* dropped, a later one (a binary frame) received while it was open was
\* forwarded, and the backend has since closed
C16_Witness ==
    /\ Len(clientOut[1]) = 2
    /\ clientOut[1][1].readyState = "connecting"
    /\ clientOut[1][2].readyState = "open"
    /\ clientOut[1][2].message.type = "binary"
    /\ backendIn[1] = <<clientOut[1][2].message>>
    /\ wsBackend[1].state = "closed"

\* C17: close propagation is symmetric. When the client closes with
\* (code, reason) while its backend socket is connecting or open, the
\* backend socket is closed with the same (code, reason); when the backend
\* closes with (code, reason) while the client is open, the client is closed
\* with the same (code, reason).
C17_ClosePropagation ==
    [][\A c \in Conns :
         /\ (/\ wsClient[c].state = "open" /\ wsClient'[c].state = "closed"
             /\ wsBackend[c].state \in {"connecting", "open"}
             /\ wsBackend'[c].state # "closed"
             /\ ~wsBackend'[c].error) =>
                /\ wsBackend'[c].state = "closing"
                /\ wsBackend'[c].closed = wsClient'[c].closed
         /\ (/\ wsBackend[c].state # "closed" /\ wsBackend'[c].state = "closed"
             /\ wsClient[c].state = "open") =>
                /\ wsClient'[c].state = "closed"
                /\ wsClient'[c].closed = wsBackend'[c].closed]_vars

\* C17 witness: the client went away before any of its messages could be
\* forwarded, and the backend socket was closed with the client's code and
\* reason
C17_Witness ==
    /\ wsClient[1].closed = Some(<<1001, "going away">>)
    /\ wsBackend[1].state = "closing"
    /\ wsBackend[1].closed = Some(<<1001, "going away">>)
    /\ clientOut[1] # <<>>
    /\ backendIn[1] = <<>>

\* C18: when the backend socket reports a transport-level error while the
\* client is open, the client is closed with code 1011 and reason
\* "Backend error", and stays so when the backend's close event follows
\* with another code.
C18_BackendError1011 ==
    \A c \in Conns :
        wsBackend[c].error =>
            /\ wsClient[c].state = "closed"
            /\ wsClient[c].closed = Some(<<1011, "Backend error">>)

\* C18 witness: after the error the backend's close event came with code
\* 1000, and the client is closed with 1011
C18_Witness ==
    /\ wsBackend[1].error
    /\ wsBackend[1].state = "closed"
    /\ wsBackend[1].closed = Some(<<1000, "done">>)
    /\ wsClient[1].closed = Some(<<1011, "Backend error">>)

\* C19: active-pairs invariant. A client connection has an entry in
\* wsBackends only while neither its client socket nor its backend socket
\* is closed: the step that closes either of them removes the entry.
C19_ActivePairs ==
    \A c \in Conns :
        c \in wsBackends =>
            /\ wsClient[c].state = "open"
            /\ wsBackend[c].state \notin {"none", "closed"}

\* C19 witness: the backend closed first, after a frame had gone through,
\* the client was closed with it and the entry is gone
C19_Witness ==
    /\ wsBackend[1].state = "closed"
    /\ ~wsBackend[1].error
    /\ wsClient[1].state = "closed"
    /\ wsClient[1].closed = wsBackend[1].closed
    /\ clientIn[1] # <<>>
    /\ 1 \notin wsBackends

\* one end of the pair has closed or reported an error
TornDown(c) ==
    \/ wsClient[c].state = "closed"
    \/ wsBackend[c].state \in {"closing", "closed"}
    \/ wsBackend[c].error

\* both sockets are closed and the pair has left the table
BothClosed(c) ==
    /\ wsClient[c].state = "closed"
    /\ wsBackend[c].state = "closed"
    /\ c \notin wsBackends

\* C20: fate-sharing. Once the client or the backend of a bridged pair has
\* closed or reported an error, and the runtime delivers pending close
\* events, the pair eventually has both sockets closed and no entry in
\* wsBackends.
C20_FateSharing == \A c \in Conns : TornDown(c) ~> BothClosed(c)

\* C20 witness: the client closed while the backend was still open to it,
\* and the backend's close event has since arrived
C20_Witness ==
    /\ BothClosed(1)
    /\ ~wsBackend[1].error
    /\ wsClient[1].closed = Some(<<1000, "done">>)
    /\ wsBackend[1].closed = Some(<<1001, "going away">>)
    /\ backendIn[1] # <<>>

\* everything that belongs to the pair of client c
PairState(c) ==
    <<wsClient[c], wsBackend[c], c \in wsBackends, backendOut[c], blobPending[c],
      clientIn[c], clientOut[c], backendIn[c]>>

\* C21: bridge pairs are isolated. A step of one pair (open, message, close
\* or error on either side) leaves every other pair's sockets, traffic and
\* wsBackends entry unchanged; a backend is only ever sent messages of its
\* own client and a client only messages of its own backend; a backend
\* socket exists only for a client whose open handler ran.
C21_PairsIsolated ==
    /\ [](\A c \in Conns :
            /\ \A i \in 1..Len(backendIn[c]) : backendIn[c][i] = PairClientMessage(c)
            /\ \A i \in 1..Len(clientIn[c]) :
                  clientIn[c][i] = TextFrame(PairBackendMessage(c).data)
            /\ (wsBackend[c].state = "none") = (wsClient[c].state = "none"))
    /\ [][\A a, b \in Conns :
            (a # b /\ PairState(a)' # PairState(a)) => PairState(b)' = PairState(b)]_vars

\* C21 witness: both pairs carried a message of their own client, then the
\* backend of pair 1 failed, and pair 2 is still open with its entry
C21_Witness ==
    /\ backendIn[1] = <<PairClientMessage(1)>>
    /\ backendIn[2] = <<PairClientMessage(2)>>
    /\ wsBackend[1].error
    /\ wsClient[1].closed = Some(<<1011, "Backend error">>)
    /\ 1 \notin wsBackends
    /\ 2 \in wsBackends
    /\ wsClient[2].state = "open"
    /\ wsBackend[2].state = "open"

\* C22: mapping freshness never regresses. Whatever the order in which the
\* refreshes of concurrent getMapping calls complete, lastScan never
\* decreases, and a refresh that writes mappingCache did not start before
\* the refresh whose result was cached until then.
C22_FreshnessMonotone ==
    [][/\ lastScan' >= lastScan
       /\ \A r \in Reqs :
             (pc[r] = "refresh" /\ pc'[r] = "route") => callNow[r] >= lastScan]_vars

====
